---- MODULE Spec2Model ----
(***************************************************************************)
(* Fe-H2O Pourbaix diagram script (src/app.py).                            *)
(*                                                                         *)
(* The script is a Streamlit page: every widget interaction re-runs the    *)
(* whole script top to bottom.  The state is the six widget values plus    *)
(* the module-level values the latest run left behind (S, act_fe2,         *)
(* act_fe3, Psi_dict, psi_keys, phase_map, precip_mask and the difference  *)
(* arrays handed to the boundary contour).                                 *)
(*                                                                         *)
(* Numbers.  The script computes in binary floating point (float64):       *)
(* every operation rounds its result to the nearest representable value.   *)
(* Here every real number is a decimal fixed-point number with three       *)
(* fractional digits (the integer v stands for v/1000): products and       *)
(* quotients round to the nearest representable value (FMul, FDiv); sums,  *)
(* differences and products by a whole number are representable and so    *)
(* exact.  All operations are done in the order the source does them.      *)
(* Two potentials are equal here when they agree to 1e-3.                  *)
(***************************************************************************)
EXTENDS Integers, Sequences, FiniteSets, TLC

VARIABLES temp_c, log_a_fe2, log_a_fe3, phase_type, show_boundary, show_precip,
          S, act_fe2, act_fe3, Psi_dict, psi_keys, phase_map, precip_mask,
          contours

vars == <<temp_c, log_a_fe2, log_a_fe3, phase_type, show_boundary, show_precip,
          S, act_fe2, act_fe3, Psi_dict, psi_keys, phase_map, precip_mask,
          contours>>

(***************************************************************************)
(* Bounds of the model.                                                    *)
(***************************************************************************)
\* samples per axis of the meshgrid (the script uses 600)
res == 4
\* the slider positions explored are the multiples of TempStep in 0..100
TempStep == 25
\* log-activities explored: -6.0 + k * ActStride, |k| <= MaxActSteps
MaxActSteps == 2
\* potentials of the stand-alone classification runs range over 0..MaxPsi
MaxPsi == 1

(***************************************************************************)
(* Fixed-point arithmetic standing for the script's float arithmetic.      *)
(***************************************************************************)
Q == 10 * 10 * 10

\* x / d rounded to the nearest integer (d > 0)
Round(x, d) == (2 * x + d) \div (2 * d)

\* a * b on fixed-point numbers, rounded to the nearest representable value
FMul(a, b) == (a \div Q) * b + Round((a % Q) * b, Q)

\* a / b on fixed-point numbers (b > 0), rounded to the nearest
\* representable value: long division, three fractional digits
FDiv(a, b) ==
    LET q0 == a \div b
        r0 == a % b
        d1 == (10 * r0) \div b
        r1 == (10 * r0) % b
        d2 == (10 * r1) \div b
        r2 == (10 * r1) % b
        d3 == (10 * r2) \div b
        r3 == (10 * r2) % b
    IN  q0 * Q + d1 * 100 + d2 * 10 + d3 + (IF 2 * r3 >= b THEN 1 ELSE 0)

(***************************************************************************)
(* Constants of the script (fixed-point: value * 1000).                    *)
(***************************************************************************)
F == 96485300
R == 8314
Ln10 == 2303
G_H2O == -237130000

Gf(k) ==
    CASE k = "Fe"      -> 0
      [] k = "Fe2+"    -> -78900000
      [] k = "Fe3+"    -> -4700000
      [] k = "Fe(OH)2" -> -486500000
      [] k = "Fe(OH)3" -> -696500000
      [] k = "Fe3O4"   -> -1015400000
      [] k = "Fe2O3"   -> -742200000
      [] k = "HFeO2-"  -> -379000000

(***************************************************************************)
(* Widgets.                                                                *)
(***************************************************************************)
PhaseTypes == {"Oxides only", "Hydroxides only"}

\* st.slider("Temperature", 0, 100, 25): an integer in 0..100
Temps == {t \in 0..100 : t % TempStep = 0} \cup {25}

ActStride == 5 * 100

\* st.number_input(value=-6.0): a real; the values explored
LogActs == {-6000 + k * ActStride : k \in -MaxActSteps..MaxActSteps}

(***************************************************************************)
(* Arrays.  A numpy array holds its values: they are computed once, when   *)
(* the array is built.  array(f) is the function f with its values         *)
(* computed (f @@ the empty function is f itself).                         *)
(***************************************************************************)
\* the value the model gives an array the run did not compute
NotComputed == [x \in {} |-> 0]

array(f) == f @@ NotComputed

(***************************************************************************)
(* Meshgrid.                                                               *)
(***************************************************************************)
\* np.linspace(start, stop, num)[i]
linspace(start, stop, num, i) == start + Round(i * (stop - start), num - 1)

ph_vec == [i \in 0..(res - 1) |-> linspace(0, 14000, res, i)]
e_vec == [i \in 0..(res - 1) |-> linspace(-2500, 2500, res, i)]

\* a grid cell is <<row, column>>; np.meshgrid(ph_vec, e_vec)
Grid == (0..(res - 1)) \X (0..(res - 1))
PH == array([cell \in Grid |-> ph_vec[cell[2]]])
E == array([cell \in Grid |-> e_vec[cell[1]]])

(***************************************************************************)
(* Module-level values of one run (lines 31-34).                           *)
(***************************************************************************)
\* a run that takes the temperature the previous run left behind
GlobalsStale(t, a2, a3) ==
    LET T == 273150 + 1000 * temp_c
        s == FDiv(FMul(FMul(R, T), Ln10), F)
    IN  [T |-> T, S |-> s, act_fe2 |-> FMul(a2, s), act_fe3 |-> FMul(a3, s)]

\* act_fe2 taken from the Fe3+ input
GlobalsSwapped(t, a2, a3) ==
    LET T == 273150 + 1000 * t
        s == FDiv(FMul(FMul(R, T), Ln10), F)
    IN  [T |-> T, S |-> s, act_fe2 |-> FMul(a3, s), act_fe3 |-> FMul(a3, s)]

\* act_fe2 scaled by 2*S
GlobalsDoubled(t, a2, a3) ==
    LET T == 273150 + 1000 * t
        s == FDiv(FMul(FMul(R, T), Ln10), F)
    IN  [T |-> T, S |-> s, act_fe2 |-> FMul(a2, 2 * s), act_fe3 |-> FMul(a3, s)]

\* T = 273.15 + temp_c; S = R*T*np.log(10)/F; act_fe2 = log_a_fe2 * S;
\* act_fe3 = log_a_fe3 * S
Globals(t, a2, a3) ==
    LET T == 273150 + 1000 * t
        s == FDiv(FMul(FMul(R, T), Ln10), F)
    IN  [T |-> T, S |-> s, act_fe2 |-> FMul(a2, s), act_fe3 |-> FMul(a3, s)]

(***************************************************************************)
(* calc_psi (lines 56-70).  The source reads S, act_fe2 and act_fe3 from   *)
(* the module level; here they are the record g.                           *)
(***************************************************************************)
CommonKeys == {"Fe", "Fe2+", "Fe3+", "HFeO2-"}
HydroxideKeys == {"Fe(OH)2", "Fe(OH)3"}
OxideKeys == {"Fe3O4", "Fe2O3"}

\* lines 58-61
CommonPsi(ph, e, g) ==
    [k \in CommonKeys |->
        array([cell \in DOMAIN ph |->
            CASE k = "Fe"   -> FDiv(Gf("Fe"), F)
              [] k = "Fe2+" -> FDiv(Gf("Fe2+"), F) + g.act_fe2 - 2 * e[cell]
              [] k = "Fe3+" -> FDiv(Gf("Fe3+"), F) + g.act_fe3 - 3 * e[cell]
              [] k = "HFeO2-" ->
                    FDiv(Gf("HFeO2-") - 2 * G_H2O, F) - 2 * e[cell]
                    - FMul(3 * g.S, ph[cell]) + g.act_fe2])]

\* lines 64-65
HydroxidePsi(ph, e, g) ==
    [k \in HydroxideKeys |->
        array([cell \in DOMAIN ph |->
            CASE k = "Fe(OH)2" ->
                    FDiv(Gf("Fe(OH)2") - 2 * G_H2O, F) - 2 * e[cell]
                    - FMul(2 * g.S, ph[cell]) + g.act_fe2
              [] k = "Fe(OH)3" ->
                    FDiv(Gf("Fe(OH)3") - 3 * G_H2O, F) - 3 * e[cell]
                    - FMul(3 * g.S, ph[cell]) + g.act_fe3])]

\* lines 67-68
OxidePsi(ph, e, g) ==
    [k \in OxideKeys |->
        array([cell \in DOMAIN ph |->
            CASE k = "Fe3O4" ->
                    FDiv(FDiv(Gf("Fe3O4") - 4 * G_H2O, F) - 8 * e[cell]
                         - FMul(8 * g.S, ph[cell]), 3 * Q)
              [] k = "Fe2O3" ->
                    FDiv(FDiv(Gf("Fe2O3") - 3 * G_H2O, F) - 6 * e[cell]
                         - FMul(6 * g.S, ph[cell]), 2 * Q)])]

\* the else branch missing: the oxide pair is computed for either family
calc_psi_both(ph, e, p, g) ==
    CommonPsi(ph, e, g) @@ OxidePsi(ph, e, g)
    @@ (IF p = "Hydroxides only" THEN HydroxidePsi(ph, e, g) ELSE NotComputed)

calc_psi(ph, e, p, g) ==
    CommonPsi(ph, e, g)
    @@ (IF p = "Hydroxides only" THEN HydroxidePsi(ph, e, g)
                                 ELSE OxidePsi(ph, e, g))

(***************************************************************************)
(* Species order, stack and argmin (lines 76-82).                          *)
(***************************************************************************)
\* the hydroxide list written in another order
psi_keys_reordered(p) ==
    IF p = "Hydroxides only"
    THEN <<"Fe", "Fe2+", "Fe(OH)2", "Fe(OH)3", "Fe3+", "HFeO2-">>
    ELSE <<"Fe", "Fe2+", "Fe3+", "Fe3O4", "Fe2O3", "HFeO2-">>

psi_keys_for(p) ==
    IF p = "Hydroxides only"
    THEN <<"Fe", "Fe2+", "Fe3+", "Fe(OH)2", "Fe(OH)3", "HFeO2-">>
    ELSE <<"Fe", "Fe2+", "Fe3+", "Fe3O4", "Fe2O3", "HFeO2-">>

\* [Psi_dict[k] for k in psi_keys]; Python positions are 0-based, the
\* sequence's are 1-based
psi_list_of(dict, keys) == array([i \in 1..Len(keys) |-> dict[keys[i]]])

\* the scan of np.argmin along axis 0 at one cell: i is the next 0-based
\* position, best the position of the smallest value seen so far
RECURSIVE argmin_scan(_, _, _, _)
argmin_scan(stack, cell, i, best) ==
    IF i >= Len(stack) THEN best
    ELSE argmin_scan(stack, cell, i + 1,
                     IF stack[i + 1][cell] < stack[best + 1][cell]
                     THEN i ELSE best)

\* a scan that lets a later equal value replace the best
RECURSIVE argmin_scan_last(_, _, _, _)
argmin_scan_last(stack, cell, i, best) ==
    IF i >= Len(stack) THEN best
    ELSE argmin_scan_last(stack, cell, i + 1,
                          IF stack[i + 1][cell] <= stack[best + 1][cell]
                          THEN i ELSE best)

argmin_last(stack, cell) == argmin_scan_last(stack, cell, 1, 0)

\* a scan that takes the largest value
RECURSIVE argmax_scan(_, _, _, _)
argmax_scan(stack, cell, i, best) ==
    IF i >= Len(stack) THEN best
    ELSE argmax_scan(stack, cell, i + 1,
                     IF stack[i + 1][cell] > stack[best + 1][cell]
                     THEN i ELSE best)

argmax(stack, cell) == argmax_scan(stack, cell, 1, 0)

\* positions counted from 1
argmin_one_based(stack, cell) == argmin_scan(stack, cell, 1, 0) + 1

\* np.argmin(Psi_stack, axis=0) at one cell: the first position of the
\* minimum
argmin(stack, cell) == argmin_scan(stack, cell, 1, 0)

(***************************************************************************)
(* Precipitation mask (lines 112-121).                                     *)
(***************************************************************************)
precip_phases_for(p) ==
    IF p = "Hydroxides only" THEN <<"Fe(OH)2", "Fe(OH)3">>
                             ELSE <<"Fe3O4", "Fe2O3">>

\* positions counted from 1
index_one_based(keys, x) == CHOOSE i \in 1..Len(keys) : keys[i] = x

\* list.index(x): the 0-based position of x in keys
index(keys, x) == (CHOOSE i \in 1..Len(keys) : keys[i] = x) - 1

\* [psi_keys.index(p) for p in precip_phases if p in psi_keys]
precip_indices_of(keys, phases) ==
    LET present == {i \in 1..Len(phases) :
                        \E j \in 1..Len(keys) : keys[j] = phases[i]}
    IN  {index(keys, phases[i]) : i \in present}

\* np.isin(phase_map, precip_indices).astype(int), computed only when
\* show_precip and precip_indices is not empty
precip_mask_of(pm, keys, p, sp) ==
    LET idx == precip_indices_of(keys, precip_phases_for(p))
    IN  IF sp /\ idx # {}
        THEN array([cell \in DOMAIN pm |-> IF pm[cell] \in idx THEN 1 ELSE 0])
        ELSE NotComputed

(***************************************************************************)
(* Boundary lines (lines 145-150): the difference arrays handed to         *)
(* ax.contour, by pair of 0-based positions i < j.                         *)
(***************************************************************************)
Pairs(n) == {pr \in (0..(n - 1)) \X (0..(n - 1)) : pr[1] < pr[2]}

contours_of(psi_list, sb) ==
    IF sb
    THEN array([pr \in Pairs(Len(psi_list)) |->
            array([cell \in DOMAIN psi_list[1] |->
                psi_list[pr[1] + 1][cell] - psi_list[pr[2] + 1][cell]])])
    ELSE NotComputed

(***************************************************************************)
(* Lines 76-82 of one run, from the fields calc_psi returned.              *)
(***************************************************************************)
phase_map_of(dict, keys) ==
    LET Psi_stack == psi_list_of(dict, keys)
    IN  array([cell \in DOMAIN Psi_stack[1] |-> argmin(Psi_stack, cell)])

(***************************************************************************)
(* The page: the first run, then one run per widget interaction.  A run    *)
(* executes the script top to bottom; each line reads what the lines       *)
(* before it assigned in the same run.                                     *)
(***************************************************************************)
Init ==
    /\ temp_c = 25
    /\ log_a_fe2 = -6000
    /\ log_a_fe3 = -6000
    /\ phase_type = "Oxides only"
    /\ show_boundary = TRUE
    /\ show_precip = TRUE
    /\ S = Globals(temp_c, log_a_fe2, log_a_fe3).S
    /\ act_fe2 = Globals(temp_c, log_a_fe2, log_a_fe3).act_fe2
    /\ act_fe3 = Globals(temp_c, log_a_fe2, log_a_fe3).act_fe3
    /\ Psi_dict = calc_psi(PH, E, phase_type,
                           [S |-> S, act_fe2 |-> act_fe2, act_fe3 |-> act_fe3])
    /\ psi_keys = psi_keys_for(phase_type)
    /\ phase_map = phase_map_of(Psi_dict, psi_keys)
    /\ precip_mask = precip_mask_of(phase_map, psi_keys, phase_type, show_precip)
    /\ contours = contours_of(psi_list_of(Psi_dict, psi_keys), show_boundary)

RunScript(t, a2, a3, p, sb, sp) ==
    /\ temp_c' = t
    /\ log_a_fe2' = a2
    /\ log_a_fe3' = a3
    /\ phase_type' = p
    /\ show_boundary' = sb
    /\ show_precip' = sp
    /\ S' = Globals(t, a2, a3).S
    /\ act_fe2' = Globals(t, a2, a3).act_fe2
    /\ act_fe3' = Globals(t, a2, a3).act_fe3
    /\ Psi_dict' = calc_psi(PH, E, p,
                            [S |-> S', act_fe2 |-> act_fe2', act_fe3 |-> act_fe3'])
    /\ psi_keys' = psi_keys_for(p)
    /\ phase_map' = phase_map_of(Psi_dict', psi_keys')
    /\ precip_mask' = precip_mask_of(phase_map', psi_keys', p, sp)
    /\ contours' = contours_of(psi_list_of(Psi_dict', psi_keys'), sb)

SetTemperature(t) ==
    /\ t # temp_c
    /\ RunScript(t, log_a_fe2, log_a_fe3, phase_type, show_boundary, show_precip)

SetLogAFe2(a) ==
    /\ a # log_a_fe2
    /\ RunScript(temp_c, a, log_a_fe3, phase_type, show_boundary, show_precip)

SetLogAFe3(a) ==
    /\ a # log_a_fe3
    /\ RunScript(temp_c, log_a_fe2, a, phase_type, show_boundary, show_precip)

SetPhaseType(p) ==
    /\ p # phase_type
    /\ RunScript(temp_c, log_a_fe2, log_a_fe3, p, show_boundary, show_precip)

ToggleBoundary ==
    RunScript(temp_c, log_a_fe2, log_a_fe3, phase_type, ~show_boundary,
              show_precip)

TogglePrecip ==
    RunScript(temp_c, log_a_fe2, log_a_fe3, phase_type, show_boundary,
              ~show_precip)

\* the page's "Rerun": the script runs again with the widgets as they are
Rerun ==
    RunScript(temp_c, log_a_fe2, log_a_fe3, phase_type, show_boundary,
              show_precip)

Next ==
    \/ \E t \in Temps : SetTemperature(t)
    \/ \E a \in LogActs : SetLogAFe2(a)
    \/ \E a \in LogActs : SetLogAFe3(a)
    \/ \E p \in PhaseTypes : SetPhaseType(p)
    \/ ToggleBoundary
    \/ TogglePrecip
    \/ Rerun

Spec == Init /\ [][Next]_vars

(***************************************************************************)
(* The classification alone (lines 76-150) on arbitrary fields: each of    *)
(* the six species of either family has a constant field with a value in  *)
(* 0..MaxPsi, and one step replaces one species' field and classifies      *)
(* again.                                                                  *)
(***************************************************************************)
constant_fields(keys, v) ==
    [k \in {keys[i] : i \in 1..Len(keys)} |->
        array([cell \in Grid |-> v[index(keys, k) + 1]])]

InitClassify ==
    /\ temp_c = 25
    /\ log_a_fe2 = -6000
    /\ log_a_fe3 = -6000
    /\ phase_type \in PhaseTypes
    /\ show_boundary = TRUE
    /\ show_precip = TRUE
    /\ S = Globals(temp_c, log_a_fe2, log_a_fe3).S
    /\ act_fe2 = Globals(temp_c, log_a_fe2, log_a_fe3).act_fe2
    /\ act_fe3 = Globals(temp_c, log_a_fe2, log_a_fe3).act_fe3
    /\ psi_keys = psi_keys_for(phase_type)
    /\ \E v \in [1..Len(psi_keys) -> 0..MaxPsi] :
            Psi_dict = constant_fields(psi_keys, v)
    /\ phase_map = phase_map_of(Psi_dict, psi_keys)
    /\ precip_mask = precip_mask_of(phase_map, psi_keys, phase_type, show_precip)
    /\ contours = contours_of(psi_list_of(Psi_dict, psi_keys), show_boundary)

Reclassify(k, x) ==
    /\ Psi_dict[k] # array([cell \in Grid |-> x])
    /\ Psi_dict' = [Psi_dict EXCEPT ![k] = array([cell \in Grid |-> x])]
    /\ psi_keys' = psi_keys_for(phase_type)
    /\ phase_map' = phase_map_of(Psi_dict', psi_keys')
    /\ precip_mask' = precip_mask_of(phase_map', psi_keys', phase_type,
                                     show_precip)
    /\ contours' = contours_of(psi_list_of(Psi_dict', psi_keys'), show_boundary)
    /\ UNCHANGED <<temp_c, log_a_fe2, log_a_fe3, phase_type, show_boundary,
                   show_precip, S, act_fe2, act_fe3>>

NextClassify == \E k \in DOMAIN Psi_dict : \E x \in 0..MaxPsi : Reclassify(k, x)

SpecClassify == InitClassify /\ [][NextClassify]_vars

(***************************************************************************)
(* Properties.                                                             *)
(***************************************************************************)
\* the potential of the species at 0-based position i of psi_keys, at cell
PsiAt(i, cell) == Psi_dict[psi_keys[i + 1]][cell]

Positions == 0..(Len(psi_keys) - 1)

\* C1: every value stored in phase_map is an index i with 0 <= i < 6 =
\* len(psi_keys), at every grid cell, for every temperature, pair of
\* log-activities and phase family.
PhaseMapIndexValid ==
    /\ Len(psi_keys) = 6
    /\ DOMAIN phase_map = Grid
    /\ \A cell \in Grid : phase_map[cell] \in Int
                          /\ 0 <= phase_map[cell]
                          /\ phase_map[cell] < Len(psi_keys)

\* a run after the first one in which both the first and the last species
\* of the list win a cell
PhaseMapEndsReached ==
    /\ temp_c # 25
    /\ \E cell \in Grid : phase_map[cell] = 0
    /\ \E cell \in Grid : phase_map[cell] = 5

\* the two solid species of a phase family
Solids(p) == IF p = "Hydroxides only" THEN {"Fe(OH)2", "Fe(OH)3"}
                                      ELSE {"Fe3O4", "Fe2O3"}

\* C2: whenever the precipitation mask is computed, precip_mask[cell] is 1
\* exactly when phase_map[cell] is the position (3 or 4) of one of the two
\* solid species of the selected family, and 0 otherwise; cells won by Fe,
\* Fe2+, Fe3+ or HFeO2- are never marked.
PrecipMaskIffSolid ==
    show_precip =>
        /\ DOMAIN precip_mask = Grid
        /\ {psi_keys[3 + 1], psi_keys[4 + 1]} = Solids(phase_type)
        /\ \A cell \in Grid :
              /\ precip_mask[cell] \in {0, 1}
              /\ precip_mask[cell] = 1 <=> phase_map[cell] \in {3, 4}
              /\ precip_mask[cell] = 1 <=>
                    psi_keys[phase_map[cell] + 1] \in Solids(phase_type)
              /\ psi_keys[phase_map[cell] + 1] \in CommonKeys
                    => precip_mask[cell] = 0

\* a hydroxide run with the mask computed, some cell marked and some not
PrecipMaskMixed ==
    /\ show_precip
    /\ phase_type = "Hydroxides only"
    /\ \E cell \in Grid : precip_mask[cell] = 1
    /\ \E cell \in Grid : precip_mask[cell] = 0

\* C3, as claimed: for every pair i < j handed to the boundary contour and
\* every grid point where field_i equals field_j, phase_map there is i or j.
BoundaryTieIsWinner ==
    show_boundary =>
        \A pr \in DOMAIN contours : \A cell \in Grid :
            contours[pr][cell] = 0 => phase_map[cell] \in {pr[1], pr[2]}

\* field_i = field_j at cell and every other species is strictly higher
TieAtMinimum(pr, cell) ==
    /\ contours[pr][cell] = 0
    /\ \A k \in Positions \ {pr[1], pr[2]} : PsiAt(k, cell) > PsiAt(pr[1], cell)

\* C3, amended: for every pair i < j handed to the boundary contour and
\* every grid point where field_i equals field_j and every other species
\* has a strictly higher potential, phase_map there is i (the lower
\* position of the pair), never a third species.
BoundaryTieAtMinimum ==
    show_boundary =>
        \A pr \in DOMAIN contours : \A cell \in Grid :
            TieAtMinimum(pr, cell) => phase_map[cell] = pr[1]

\* a run whose grid has a point where exactly two species share the minimum
BoundaryTieAtMinimumReached ==
    /\ show_boundary
    /\ \E pr \in DOMAIN contours : \E cell \in Grid : TieAtMinimum(pr, cell)

\* C5: when two or more species share the minimum potential at a cell
\* (all six equal included), classification yields a value at that cell and
\* it is the lowest position in psi_keys among the species at the minimum.
TieResolvesToLowestIndex ==
    /\ DOMAIN phase_map = Grid
    /\ \A cell \in Grid :
          /\ phase_map[cell] \in Positions
          /\ \A k \in Positions : PsiAt(phase_map[cell], cell) <= PsiAt(k, cell)
          /\ \A k \in Positions :
                PsiAt(k, cell) = PsiAt(phase_map[cell], cell)
                    => phase_map[cell] <= k

\* a cell where all six fields are equal, classified
AllSixEqualClassified ==
    \E cell \in Grid :
        /\ \A k \in Positions : PsiAt(k, cell) = PsiAt(0, cell)
        /\ phase_map[cell] = 0

OnlyPhaseChanges ==
    /\ temp_c' = temp_c
    /\ log_a_fe2' = log_a_fe2
    /\ log_a_fe3' = log_a_fe3

\* C6: switching the phase family from Oxides to Hydroxides with the
\* temperature and both log-activities held fixed leaves the first three
\* entries of psi_keys (all but the last three) and the Fe, Fe2+, Fe3+ and
\* HFeO2- fields unchanged at every cell.
PhaseSwitchFrame ==
    [][(phase_type = "Oxides only" /\ phase_type' = "Hydroxides only"
        /\ OnlyPhaseChanges)
       => /\ Len(psi_keys') = Len(psi_keys)
          /\ \A i \in 1..(Len(psi_keys) - 3) : psi_keys'[i] = psi_keys[i]
          /\ \A k \in CommonKeys :
                \A cell \in Grid : Psi_dict'[k][cell] = Psi_dict[k][cell]]_vars

\* a hydroxide run at a temperature and an Fe2+ activity other than the
\* defaults (the first run is an oxide run)
SwitchedToHydroxides ==
    /\ phase_type = "Hydroxides only"
    /\ temp_c # 25
    /\ log_a_fe2 # -6000

\* what a run that starts from nothing computes from the current widgets
FreshPsi ==
    calc_psi(PH, E, phase_type,
             [S |-> Globals(temp_c, log_a_fe2, log_a_fe3).S,
              act_fe2 |-> Globals(temp_c, log_a_fe2, log_a_fe3).act_fe2,
              act_fe3 |-> Globals(temp_c, log_a_fe2, log_a_fe3).act_fe3])

FreshPhaseMap == phase_map_of(FreshPsi, psi_keys_for(phase_type))

SameParameters ==
    /\ temp_c' = temp_c
    /\ log_a_fe2' = log_a_fe2
    /\ log_a_fe3' = log_a_fe3
    /\ phase_type' = phase_type

\* C7: phase_map and the precipitation mask depend only on the current
\* temperature, log-activities, phase family and grid: after any sequence
\* of runs they are what a run that starts from nothing computes from the
\* current parameters, and a run with the parameters of the run before it
\* yields the same phase_map and the same mask.
RunsDependOnlyOnParameters ==
    /\ [](/\ phase_map = FreshPhaseMap
          /\ show_precip =>
                precip_mask = precip_mask_of(FreshPhaseMap,
                                             psi_keys_for(phase_type),
                                             phase_type, TRUE))
    /\ [][SameParameters =>
            /\ phase_map' = phase_map
            /\ (show_precip /\ show_precip') => precip_mask' = precip_mask]_vars

\* the default parameters again, in a run later than the first (the first
\* run shows the boundary lines)
DefaultsRecomputed ==
    /\ temp_c = 25
    /\ log_a_fe2 = -6000
    /\ log_a_fe3 = -6000
    /\ phase_type = "Oxides only"
    /\ ~show_boundary
    /\ show_precip

OnlyFe2Changes ==
    /\ temp_c' = temp_c
    /\ log_a_fe3' = log_a_fe3
    /\ phase_type' = phase_type
    /\ log_a_fe2' # log_a_fe2

OnlyFe3Changes ==
    /\ temp_c' = temp_c
    /\ log_a_fe2' = log_a_fe2
    /\ phase_type' = phase_type
    /\ log_a_fe3' # log_a_fe3

\* C8, as claimed: for two evaluations that differ only in log10(Fe2+
\* activity), a1 < a2, the Fe2+ field of the second exceeds that of the
\* first at every cell by exactly (a2 - a1) * S, S being the same in both.
Fe2ShiftExact ==
    [][(OnlyFe2Changes /\ log_a_fe2 < log_a_fe2')
       => /\ S' = S
          /\ \A cell \in Grid :
                Psi_dict'["Fe2+"][cell] - Psi_dict["Fe2+"][cell]
                    = FMul(log_a_fe2' - log_a_fe2, S)]_vars

\* C8, amended: the Fe2+ field of the second is greater than that of the
\* first at every cell, S is the same in both, and the difference equals
\* (a2 - a1) * S up to the rounding of the two products a1*S and a2*S (one
\* unit in the last place), not exactly.
Fe2ShiftUpToRounding ==
    [][(OnlyFe2Changes /\ log_a_fe2 < log_a_fe2')
       => /\ S' = S
          /\ \A cell \in Grid :
                LET d == Psi_dict'["Fe2+"][cell] - Psi_dict["Fe2+"][cell]
                    x == FMul(log_a_fe2' - log_a_fe2, S)
                IN  d > 0 /\ d - x <= 1 /\ x - d <= 1]_vars

\* a run with a log10(Fe2+ activity) that is not a whole number and the
\* other parameters at their defaults
Fe2ActivityChanged ==
    /\ log_a_fe2 = -5500
    /\ log_a_fe3 = -6000
    /\ temp_c = 25

\* C9: the set of species keys calc_psi returns is exactly the set of
\* psi_keys of the same phase_type: the four common species always, and
\* exactly one of the hydroxide pair and the oxide pair.
PsiKeysMatchStack ==
    /\ DOMAIN Psi_dict = {psi_keys[i] : i \in 1..Len(psi_keys)}
    /\ Len(psi_keys) = Cardinality(DOMAIN Psi_dict)
    /\ CommonKeys \subseteq DOMAIN Psi_dict
    /\ \/ HydroxideKeys \subseteq DOMAIN Psi_dict
          /\ OxideKeys \cap DOMAIN Psi_dict = {}
          /\ phase_type = "Hydroxides only"
       \/ OxideKeys \subseteq DOMAIN Psi_dict
          /\ HydroxideKeys \cap DOMAIN Psi_dict = {}
          /\ phase_type = "Oxides only"

\* a hydroxide run with its fields returned
HydroxideFieldsComputed ==
    /\ phase_type = "Hydroxides only"
    /\ "Fe(OH)3" \in DOMAIN Psi_dict

Unchanged(k) == \A cell \in Grid : Psi_dict'[k][cell] = Psi_dict[k][cell]

\* C10: changing only log10(Fe3+ activity) changes no field other than Fe3+
\* and Fe(OH)3; changing only log10(Fe2+ activity) changes no field other
\* than Fe2+, HFeO2- and Fe(OH)2; Fe, Fe3O4 and Fe2O3 are unchanged by
\* either, at every cell and temperature.
ActivityFrame ==
    [][/\ OnlyFe3Changes =>
            \A k \in DOMAIN Psi_dict \ {"Fe3+", "Fe(OH)3"} : Unchanged(k)
       /\ OnlyFe2Changes =>
            \A k \in DOMAIN Psi_dict \ {"Fe2+", "HFeO2-", "Fe(OH)2"} :
                Unchanged(k)
       /\ (OnlyFe2Changes \/ OnlyFe3Changes) =>
            \A k \in DOMAIN Psi_dict \cap {"Fe", "Fe3O4", "Fe2O3"} :
                Unchanged(k)]_vars

\* a hydroxide run at 100 degrees with both activities moved off their
\* defaults
BothActivitiesChanged ==
    /\ log_a_fe2 # -6000
    /\ log_a_fe3 # -6000
    /\ phase_type = "Hydroxides only"
    /\ temp_c = 100

====
